---- MODULE Spec2Model ----
(***************************************************************************)
(* Kernel timer subsystem (src/kernel/timer.c): the sorted timer queue,    *)
(* timer_set_oneshot / timer_set_periodic / timer_cancel, and the          *)
(* interrupt-time dispatcher timer_tick.                                   *)
(*                                                                         *)
(* Specifications:                                                         *)
(*   Spec     every API call runs to completion as one step; the           *)
(*            dispatcher is a state machine whose callbacks make API calls *)
(*   SpecIrq  the call-context timer_set runs statement by statement, and  *)
(*            the timer interrupt may preempt it wherever it runs outside  *)
(*            the critical section                                         *)
(*   SpecTag  Spec with the storage of a timer overwritten at any time     *)
(*   SpecLive Spec with the fairness the liveness properties assume        *)
(***************************************************************************)
EXTENDS Integers, Sequences, FiniteSets, TLC

\* ------------------------------------------------------------------ bounds
MaxTime  == 6   \* current_time() runs 0..MaxTime
MidDelay == 3   \* delay / period arguments are drawn from
MaxDelay == 5   \*   {0, MidDelay, MaxDelay}
MaxCbOps == 1   \* API calls one callback invocation may make
IrqMaxTime == 2 \* current_time() runs 0..IrqMaxTime under SpecIrq
LiveMaxTime == 4 \* current_time() runs 0..LiveMaxTime under SpecLive

\* ---------------------------------------------------------------- universe
Timers == {"A", "B"}     \* timer objects, initialised by timer_initialize
BadTimers == {"Z"}       \* memory that was never initialised as a timer
AllTimers == Timers \cup BadTimers
NULL == "NULL"
TIMER_MAGIC == "TIMER_MAGIC"
INT_NO_RESCHEDULE == "INT_NO_RESCHEDULE"
INT_RESCHEDULE == "INT_RESCHEDULE"
HandlerReturn == {INT_NO_RESCHEDULE, INT_RESCHEDULE}
\* (callback, arg) pairs the callers pass to timer_set_*
Handlers == {<<"f", "x">>}
Delays == {0, MidDelay, MaxDelay}

VARIABLES
    clock,                  \* current_time()
    dynamic,                \* PLATFORM_HAS_DYNAMIC_TIMER of this build
    timer_queue,            \* the queue, head first
    magic,                  \* timer -> validity tag
    scheduled_time,         \* timer -> absolute deadline
    periodic_time,          \* timer -> period, 0 = one-shot
    callback,               \* timer -> callback or NULL
    arg,                    \* timer -> argument or NULL
    hw,                     \* the platform timer: [mode, deadline]
    critical_section_count, \* depth of the critical section
    fatal,                  \* "none", or why the kernel panicked
    isr,                    \* position of timer_tick
    now,                    \* timer_tick's argument
    timer,                  \* timer_tick's local: the timer being processed
    periodic,               \* timer_tick's local
    ret,                    \* timer_tick's local
    cbops,                  \* API calls the running callback has made
    thr,                    \* position and arguments of a preemptible timer_set
    life,                   \* timer -> last lifecycle call: unarmed/oneshot/periodic/cancelled
    fired,                  \* timer -> its callback was invoked since it was last armed
    pass                    \* this dispatch pass: hints returned, hook calls, timers invoked

tstate == <<timer_queue, scheduled_time, periodic_time, callback, arg, hw, fatal, life, fired>>
tickst == <<isr, now, timer, periodic, ret, cbops, critical_section_count, pass>>
vars == <<clock, dynamic, magic, thr, timer_queue, scheduled_time, periodic_time,
          callback, arg, hw, fatal, life, fired,
          isr, now, timer, periodic, ret, cbops, critical_section_count, pass>>

\* ------------------------------------------------- collaborators (list.h &c)
TIME_GT(a, b) == a > b
TIME_LT(a, b) == a < b

list_in_list(q, t) == \E i \in 1..Len(q) : q[i] = t
list_delete(q, t) == SelectSeq(q, LAMBDA x : x # t)
list_peek_head(q) == IF q = <<>> THEN NULL ELSE q[1]
list_add_tail(q, t) == Append(q, t)
list_add_before(q, i, t) == SubSeq(q, 1, i - 1) \o <<t>> \o SubSeq(q, i, Len(q))

\* the sequence stands for the linked list only while no node is linked twice
list_well_formed(q) == \A i, j \in 1..Len(q) : q[i] = q[j] => i = j

in_critical_section == critical_section_count > 0

platform_set_oneshot_timer(delay) == [mode |-> "oneshot", deadline |-> clock + delay]
platform_stop_timer == [mode |-> "off", deadline |-> 0]
platform_set_periodic_timer == [mode |-> "periodic", deadline |-> 0]
hw_expired == hw.mode = "periodic" \/ (hw.mode = "oneshot" /\ clock >= hw.deadline)

TIMER_INITIAL_VALUE == [scheduled_time |-> 0, periodic_time |-> 0, callback |-> NULL, arg |-> NULL]

\* ------------------------------------------------------------------- queue
\* the scan of lines 66-71 left out: every timer goes to the tail
insert_timer_at_tail(q, st, t) == list_add_tail(q, t)

\* lines 66-74 with the scan stopping at the first deadline not earlier
insert_timer_before_ties(q, st, t) ==
    LET later == {i \in 1..Len(q) : ~TIME_LT(st[q[i]], st[t])}
    IN  IF later = {}
        THEN list_add_tail(q, t)
        ELSE list_add_before(q, CHOOSE i \in later : \A j \in later : i <= j, t)

insert_timer_in_queue(q, st, t) ==
    LET later == {i \in 1..Len(q) : TIME_GT(st[q[i]], st[t])}
    IN  IF later = {}
        THEN list_add_tail(q, t)
        ELSE list_add_before(q, CHOOSE i \in later : \A j \in later : i <= j, t)

\* --------------------------------------------------------------- timer_set
\* line 83 left out
timer_set_check_link_only(t) ==
    IF list_in_list(timer_queue, t) THEN "already_in_list" ELSE "none"

\* lines 85-87 left out
timer_set_check_magic_only(t) ==
    IF magic[t] # TIMER_MAGIC THEN "assert_magic" ELSE "none"

\* lines 83-87: the outcome of the checks made before anything is written
timer_set_check(t) ==
    IF magic[t] # TIMER_MAGIC THEN "assert_magic"
    ELSE IF list_in_list(timer_queue, t) THEN "already_in_list"
    ELSE "none"

\* lines 89-93
timer_set_fields(t, delay, period, h) ==
    /\ scheduled_time' = [scheduled_time EXCEPT ![t] = clock + delay]
    /\ periodic_time' = [periodic_time EXCEPT ![t] = period]
    /\ callback' = [callback EXCEPT ![t] = h[1]]
    /\ arg' = [arg EXCEPT ![t] = h[2]]

\* lines 102-106 left out
timer_set_hw_never(q, t, delay) == hw

\* lines 102-106: the hardware timer after the insert
timer_set_hw(q, t, delay) ==
    IF dynamic /\ list_peek_head(q) = t THEN platform_set_oneshot_timer(delay) ELSE hw

\* lines 97-109, st the deadlines at that point
timer_set_insert(st, t, delay, period) ==
    /\ timer_queue' = insert_timer_in_queue(timer_queue, st, t)
    /\ hw' = timer_set_hw(insert_timer_in_queue(timer_queue, st, t), t, delay)
    /\ life' = [life EXCEPT ![t] = IF period = 0 THEN "oneshot" ELSE "periodic"]
    /\ fired' = [fired EXCEPT ![t] = FALSE]

timer_set(t, delay, period, h) ==
    IF timer_set_check(t) # "none"
    THEN /\ fatal' = timer_set_check(t)
         /\ UNCHANGED <<timer_queue, scheduled_time, periodic_time, callback, arg, hw, life, fired>>
    ELSE /\ timer_set_fields(t, delay, period, h)
         /\ timer_set_insert(scheduled_time', t, delay, period)
         /\ fatal' = fatal

\* lines 126-131 without the coercion of line 129
timer_set_oneshot_no_coerce(t, delay, h) == timer_set(t, delay, 0, h)

\* lines 126-131
timer_set_oneshot(t, delay, h) ==
    timer_set(t, IF delay = 0 THEN 1 ELSE delay, 0, h)

\* lines 147-152 without the coercion of line 150
timer_set_periodic_no_coerce(t, period, h) == timer_set(t, period, period, h)

\* lines 147-152
timer_set_periodic(t, period, h) ==
    timer_set(t, IF period = 0 THEN 1 ELSE period, IF period = 0 THEN 1 ELSE period, h)

\* ------------------------------------------------------------ timer_cancel
\* lines 167-168 left out
cancel_without_unlink(q, t) == q

\* lines 167-168
cancel_unlink(q, t) == IF list_in_list(q, t) THEN list_delete(q, t) ELSE q

\* line 173 left out
cancel_clear_keep_period(t) ==
    /\ periodic_time' = periodic_time
    /\ callback' = [callback EXCEPT ![t] = NULL]
    /\ arg' = [arg EXCEPT ![t] = NULL]

\* lines 173-175
cancel_clear(t) ==
    /\ periodic_time' = [periodic_time EXCEPT ![t] = 0]
    /\ callback' = [callback EXCEPT ![t] = NULL]
    /\ arg' = [arg EXCEPT ![t] = NULL]

\* lines 163-165, 177-195
cancel_hw(oldhead, newhead) ==
    IF ~dynamic THEN hw
    ELSE IF newhead = NULL THEN platform_stop_timer
    ELSE IF newhead # oldhead
         THEN platform_set_oneshot_timer(
                  IF TIME_LT(scheduled_time[newhead], clock) THEN 0
                  ELSE scheduled_time[newhead] - clock)
         ELSE hw

timer_cancel(t) ==
    IF magic[t] # TIMER_MAGIC
    THEN /\ fatal' = "assert_magic"
         /\ UNCHANGED <<timer_queue, scheduled_time, periodic_time, callback, arg, hw, life, fired>>
    ELSE /\ timer_queue' = cancel_unlink(timer_queue, t)
         /\ cancel_clear(t)
         /\ hw' = cancel_hw(list_peek_head(timer_queue), list_peek_head(cancel_unlink(timer_queue, t)))
         /\ life' = [life EXCEPT ![t] = "cancelled"]
         /\ UNCHANGED <<scheduled_time, fatal, fired>>

\* -------------------------------------------------------------- timer_tick
\* line 217 with the comparison turned round: the head is processed early
tick_due_early(q, st, n) == q # <<>> /\ ~TIME_LT(st[q[1]], n)

\* lines 213-218: is there a timer to process
tick_due(q, st, n) == q # <<>> /\ ~TIME_LT(n, st[q[1]])

\* line 239 without the periodic_time test
tick_requeue_no_period_test(p, q, t) == p /\ ~list_in_list(q, t)

\* line 239 without the list_in_list test
tick_requeue_no_link_test(p, q, t) == p /\ periodic_time[t] > 0

\* line 239
tick_requeue(p, q, t) == p /\ ~list_in_list(q, t) /\ periodic_time[t] > 0

\* line 241 counting from the missed deadline
tick_requeue_from_deadline(n, t) == scheduled_time[t] + periodic_time[t]

\* line 241
tick_requeue_time(n, t) == n + periodic_time[t]

\* line 223 left out
tick_no_unlink(q, t) == q

\* line 223
tick_unlink(q, t) == list_delete(q, t)

\* lines 233-234 and 261-262 as a plain assignment of the last hint
tick_fold_last(r0, r) == r

\* lines 233-234 and 261-262: fold a returned hint into ret
tick_fold(r0, r) == IF r = INT_RESCHEDULE THEN INT_RESCHEDULE ELSE r0

Running == fatal = "none" /\ list_well_formed(timer_queue)

\* nothing recorded of a dispatch pass
PassIdle == [hint |-> FALSE, hooks |-> 0, invoked |-> {}]

\* the platform timer interrupt: the interrupt entry holds the critical
\* section and calls timer_tick(NULL, current_time()); lines 201-209
IrqEnter ==
    /\ Running /\ isr = "idle" /\ critical_section_count = 0
    /\ hw_expired
    /\ hw' = IF hw.mode = "oneshot" THEN [mode |-> "off", deadline |-> 0] ELSE hw
    /\ critical_section_count' = critical_section_count + 1
    /\ isr' = "loop" /\ now' = clock /\ ret' = INT_NO_RESCHEDULE
    /\ pass' = PassIdle
    /\ UNCHANGED <<clock, dynamic, magic, thr, timer_queue, scheduled_time, periodic_time,
                   callback, arg, fatal, life, fired, timer, periodic, cbops>>

\* lines 211-233: leave the loop, or check the head's tag, unlink it and
\* call its callback
TickLoop ==
    /\ Running /\ isr = "loop"
    /\ timer' = list_peek_head(timer_queue)
    /\ IF ~tick_due(timer_queue, scheduled_time, now)
       THEN /\ isr' = "rearm" /\ periodic' = FALSE
            /\ UNCHANGED <<timer_queue, fatal, fired, pass>>
       ELSE IF magic[timer'] # TIMER_MAGIC
       THEN /\ fatal' = "assert_magic"
            /\ UNCHANGED <<timer_queue, fired, pass, isr, periodic>>
       ELSE /\ timer_queue' = tick_unlink(timer_queue, timer')
            /\ periodic' = (periodic_time[timer'] > 0)
            /\ fired' = [fired EXCEPT ![timer'] = TRUE]
            /\ pass' = [pass EXCEPT !.invoked = @ \cup {timer'}]
            /\ fatal' = IF callback[timer'] = NULL THEN "null_callback" ELSE fatal
            /\ isr' = IF fatal' = "none" THEN "callback" ELSE isr
    /\ UNCHANGED <<clock, dynamic, magic, thr, scheduled_time, periodic_time, callback, arg,
                   hw, life, now, ret, cbops, critical_section_count>>

\* API calls made by the running callback
CbSetOneshot(t, d, h) ==
    /\ Running /\ isr = "callback" /\ cbops < MaxCbOps
    /\ timer_set_oneshot(t, d, h)
    /\ cbops' = cbops + 1
    /\ UNCHANGED <<clock, dynamic, magic, thr, isr, now, timer, periodic, ret,
                   critical_section_count, pass>>

CbSetPeriodic(t, p, h) ==
    /\ Running /\ isr = "callback" /\ cbops < MaxCbOps
    /\ timer_set_periodic(t, p, h)
    /\ cbops' = cbops + 1
    /\ UNCHANGED <<clock, dynamic, magic, thr, isr, now, timer, periodic, ret,
                   critical_section_count, pass>>

CbCancel(t) ==
    /\ Running /\ isr = "callback" /\ cbops < MaxCbOps
    /\ timer_cancel(t)
    /\ cbops' = cbops + 1
    /\ UNCHANGED <<clock, dynamic, magic, thr, isr, now, timer, periodic, ret,
                   critical_section_count, pass>>

\* lines 233-243: the callback returns r; requeue a periodic timer
CbReturn(r) ==
    /\ Running /\ isr = "callback"
    /\ ret' = tick_fold(ret, r)
    /\ pass' = [pass EXCEPT !.hint = @ \/ (r = INT_RESCHEDULE)]
    /\ IF tick_requeue(periodic, timer_queue, timer)
       THEN /\ scheduled_time' = [scheduled_time EXCEPT ![timer] = tick_requeue_time(now, timer)]
            /\ timer_queue' = insert_timer_in_queue(timer_queue, scheduled_time', timer)
       ELSE UNCHANGED <<scheduled_time, timer_queue>>
    /\ isr' = "loop" /\ cbops' = 0
    /\ UNCHANGED <<clock, dynamic, magic, thr, periodic_time, callback, arg, hw, fatal, life,
                   fired, now, timer, periodic, critical_section_count>>

\* lines 246-266: reprogram the hardware timer, or run the scheduler hook
\* (which returns r); then return ret
TickFinish(r) ==
    /\ Running /\ isr = "rearm"
    /\ LET head == list_peek_head(timer_queue) IN
       IF dynamic
       THEN /\ r = INT_NO_RESCHEDULE
            /\ ret' = ret /\ pass' = pass
            /\ IF head = NULL
               THEN hw' = hw /\ fatal' = IF in_critical_section THEN fatal ELSE "assert_critical_section"
               ELSE IF ~TIME_GT(scheduled_time[head], now)
               THEN hw' = hw /\ fatal' = "assert_scheduled_time"
               ELSE /\ hw' = platform_set_oneshot_timer(scheduled_time[head] - now)
                    /\ fatal' = IF in_critical_section THEN fatal ELSE "assert_critical_section"
       ELSE /\ ret' = tick_fold(ret, r)
            /\ pass' = [pass EXCEPT !.hint = @ \/ (r = INT_RESCHEDULE), !.hooks = @ + 1]
            /\ hw' = hw
            /\ fatal' = IF in_critical_section THEN fatal ELSE "assert_critical_section"
    /\ isr' = IF fatal' = "none" THEN "return" ELSE isr
    /\ UNCHANGED <<clock, dynamic, magic, thr, timer_queue, scheduled_time, periodic_time,
                   callback, arg, life, fired, now, timer, periodic, cbops, critical_section_count>>

\* the interrupt exit takes timer_tick's return value and leaves the critical section
IrqExit ==
    /\ Running /\ isr = "return"
    /\ isr' = "idle" /\ critical_section_count' = critical_section_count - 1
    /\ now' = 0 /\ ret' = INT_NO_RESCHEDULE /\ timer' = NULL /\ pass' = PassIdle
    /\ UNCHANGED <<clock, dynamic, magic, thr, periodic, cbops>>
    /\ UNCHANGED tstate

\* ------------------------------------------------------ call-context calls
CallContext == Running /\ isr = "idle" /\ thr.pc = "idle"

SetOneshot(t, d, h) ==
    /\ CallContext
    /\ timer_set_oneshot(t, d, h)
    /\ UNCHANGED <<clock, dynamic, magic, thr>>
    /\ UNCHANGED tickst

SetPeriodic(t, p, h) ==
    /\ CallContext
    /\ timer_set_periodic(t, p, h)
    /\ UNCHANGED <<clock, dynamic, magic, thr>>
    /\ UNCHANGED tickst

Cancel(t) ==
    /\ CallContext
    /\ timer_cancel(t)
    /\ UNCHANGED <<clock, dynamic, magic, thr>>
    /\ UNCHANGED tickst

ThrIdle == [pc |-> "idle", t |-> NULL, delay |-> 0, period |-> 0, h |-> <<NULL, NULL>>]

\* a timer_set that the interrupt may preempt: lines 83-87, then 89-93,
\* then 97-109 inside the critical section
ThreadSetCheck(t, delay, period, h) ==
    /\ CallContext
    /\ IF timer_set_check(t) # "none"
       THEN fatal' = timer_set_check(t) /\ thr' = thr
       ELSE fatal' = fatal /\
            thr' = [pc |-> "checked", t |-> t, delay |-> delay, period |-> period, h |-> h]
    /\ UNCHANGED <<clock, dynamic, magic, timer_queue, scheduled_time, periodic_time,
                   callback, arg, hw, life, fired>>
    /\ UNCHANGED tickst

ThreadSetOneshot(t, d, h) == ThreadSetCheck(t, IF d = 0 THEN 1 ELSE d, 0, h)

ThreadSetPeriodic(t, p, h) ==
    ThreadSetCheck(t, IF p = 0 THEN 1 ELSE p, IF p = 0 THEN 1 ELSE p, h)

ThreadSetFields ==
    /\ Running /\ isr = "idle" /\ thr.pc = "checked"
    /\ timer_set_fields(thr.t, thr.delay, thr.period, thr.h)
    /\ thr' = [thr EXCEPT !.pc = "written"]
    /\ UNCHANGED <<clock, dynamic, magic, timer_queue, hw, fatal, life, fired>>
    /\ UNCHANGED tickst

ThreadSetInsert ==
    /\ Running /\ isr = "idle" /\ thr.pc = "written"
    /\ timer_set_insert(scheduled_time, thr.t, thr.delay, thr.period)
    /\ thr' = ThrIdle
    /\ UNCHANGED <<clock, dynamic, magic, scheduled_time, periodic_time, callback, arg, fatal>>
    /\ UNCHANGED tickst

\* time passes
Advance(limit) ==
    /\ Running /\ clock < limit
    /\ clock' = clock + 1
    /\ UNCHANGED <<dynamic, magic, thr>>
    /\ UNCHANGED tstate
    /\ UNCHANGED tickst

\* the storage of an initialised timer is overwritten by its owner (reused or
\* corrupted memory): its tag is no longer TIMER_MAGIC
Overwrite(t) ==
    /\ Running /\ magic[t] = TIMER_MAGIC
    /\ magic' = [magic EXCEPT ![t] = "garbage"]
    /\ UNCHANGED <<clock, dynamic, thr>>
    /\ UNCHANGED tstate
    /\ UNCHANGED tickst

\* --------------------------------------------------------- specification
\* lines 269-275 and 55-58: the state timer_init leaves, with the timer
\* objects of Timers initialised by timer_initialize
Init ==
    /\ clock = 0
    /\ dynamic \in BOOLEAN
    /\ timer_queue = <<>>
    /\ magic = [t \in AllTimers |-> IF t \in Timers THEN TIMER_MAGIC ELSE "garbage"]
    /\ scheduled_time = [t \in AllTimers |-> TIMER_INITIAL_VALUE.scheduled_time]
    /\ periodic_time = [t \in AllTimers |-> TIMER_INITIAL_VALUE.periodic_time]
    /\ callback = [t \in AllTimers |-> TIMER_INITIAL_VALUE.callback]
    /\ arg = [t \in AllTimers |-> TIMER_INITIAL_VALUE.arg]
    /\ hw = platform_set_periodic_timer
    /\ critical_section_count = 0
    /\ fatal = "none"
    /\ isr = "idle" /\ now = 0 /\ timer = NULL /\ periodic = FALSE
    /\ ret = INT_NO_RESCHEDULE /\ cbops = 0 /\ pass = PassIdle
    /\ thr = ThrIdle
    /\ life = [t \in AllTimers |-> "unarmed"]
    /\ fired = [t \in AllTimers |-> FALSE]

Dispatch ==
    \/ IrqEnter
    \/ TickLoop
    \/ \E t \in AllTimers, d \in Delays, h \in Handlers : CbSetOneshot(t, d, h)
    \/ \E t \in AllTimers, p \in Delays, h \in Handlers : CbSetPeriodic(t, p, h)
    \/ \E t \in AllTimers : CbCancel(t)
    \/ \E r \in HandlerReturn : CbReturn(r)
    \/ \E r \in HandlerReturn : TickFinish(r)
    \/ IrqExit

Next ==
    \/ Dispatch
    \/ \E t \in AllTimers, d \in Delays, h \in Handlers : SetOneshot(t, d, h)
    \/ \E t \in AllTimers, p \in Delays, h \in Handlers : SetPeriodic(t, p, h)
    \/ \E t \in AllTimers : Cancel(t)
    \/ Advance(MaxTime)

Spec == Init /\ [][Next]_vars

NextIrq ==
    \/ Dispatch
    \/ \E t \in AllTimers, d \in Delays, h \in Handlers : ThreadSetOneshot(t, d, h)
    \/ \E t \in AllTimers, p \in Delays, h \in Handlers : ThreadSetPeriodic(t, p, h)
    \/ ThreadSetFields
    \/ ThreadSetInsert
    \/ \E t \in AllTimers : Cancel(t)
    \/ Advance(IrqMaxTime)

SpecIrq == Init /\ [][NextIrq]_vars

NextTag ==
    \/ Dispatch
    \/ \E t \in AllTimers, d \in Delays, h \in Handlers : SetOneshot(t, d, h)
    \/ \E t \in AllTimers, p \in Delays, h \in Handlers : SetPeriodic(t, p, h)
    \/ \E t \in AllTimers : Cancel(t)
    \/ \E t \in Timers : Overwrite(t)
    \/ Advance(IrqMaxTime)

SpecTag == Init /\ [][NextTag]_vars

NextLive ==
    \/ Dispatch
    \/ \E t \in AllTimers, d \in Delays, h \in Handlers : SetOneshot(t, d, h)
    \/ \E t \in AllTimers, p \in Delays, h \in Handlers : SetPeriodic(t, p, h)
    \/ \E t \in AllTimers : Cancel(t)
    \/ Advance(LiveMaxTime)

\* time advances, the platform delivers the interrupt of an expired hardware
\* timer, the dispatcher runs on and every callback returns
Fairness ==
    /\ WF_vars(Advance(LiveMaxTime))
    /\ WF_vars(IrqEnter)
    /\ WF_vars(TickLoop)
    /\ WF_vars(\E r \in HandlerReturn : CbReturn(r))
    /\ WF_vars(\E r \in HandlerReturn : TickFinish(r))
    /\ WF_vars(IrqExit)

SpecLive == Init /\ [][NextLive]_vars /\ Fairness

\* ------------------------------------------------------------- properties
linked(t) == list_in_list(timer_queue, t)
fields(t) == <<scheduled_time[t], periodic_time[t], callback[t], arg[t]>>

\* a timer_set_oneshot or timer_set_periodic call on t, from either context
\* (such a step leaves the clock and the dispatcher's position alone)
SetCall(t) ==
    /\ clock' = clock /\ isr' = isr
    /\ \E d \in Delays, h \in Handlers :
        \/ SetOneshot(t, d, h) \/ SetPeriodic(t, d, h)
        \/ CbSetOneshot(t, d, h) \/ CbSetPeriodic(t, d, h)

\* a timer_cancel call on t, from either context
CancelCall(t) ==
    /\ clock' = clock /\ isr' = isr
    /\ (Cancel(t) \/ CbCancel(t))

\* the dispatcher invokes t's callback
Invokes(t) == isr = "loop" /\ timer' = t /\ (isr' = "callback" \/ fatal' = "null_callback")

\* t's callback returns to the dispatcher
Returns(t) == isr = "callback" /\ isr' = "loop" /\ timer = t

\* C1: the queue is sorted ascending by scheduled_time: of every two adjacent
\* queued timers the earlier one's deadline is not greater than the later one's
C1_QueueSorted ==
    \A i \in 1..(Len(timer_queue) - 1) :
        scheduled_time[timer_queue[i]] <= scheduled_time[timer_queue[i + 1]]

\* two timers with different deadlines are queued, the head a periodic timer
\* the dispatcher requeued ahead of the other
C1_Witness ==
    /\ Len(timer_queue) = 2
    /\ scheduled_time[timer_queue[1]] < scheduled_time[timer_queue[2]]
    /\ life[timer_queue[1]] = "periodic" /\ fired[timer_queue[1]]
    /\ life[timer_queue[2]] = "oneshot"

\* C2: no timer is linked into the queue more than once, whatever the
\* interleaving of call-context calls with the interrupt-context dispatcher
C2_NoDoubleLink == list_well_formed(timer_queue)

\* C3: timer_set_oneshot / timer_set_periodic on a linked timer ends in the
\* panic, with the queue and the timer's fields as they were before the call
C3_SetLinkedPanics ==
    [][\A t \in Timers :
          (linked(t) /\ SetCall(t)) =>
              /\ fatal' = "already_in_list"
              /\ timer_queue' = timer_queue
              /\ fields(t)' = fields(t)]_vars

\* the panic was raised while the queue held a timer
C3_Witness == fatal = "already_in_list" /\ timer_queue # <<>>

\* C4: a one-shot timer that is armed and neither cancelled nor re-armed is
\* invoked only in a pass with now >= scheduled_time, not a second time, is
\* not linked once it fired, and has fired when a pass with
\* now >= scheduled_time leaves the loop
C4_OneshotFiresOnce ==
    /\ [](\A t \in Timers :
            /\ (life[t] = "oneshot" /\ fired[t]) => ~linked(t)
            /\ (isr = "rearm" /\ life[t] = "oneshot" /\ scheduled_time[t] <= now) => fired[t])
    /\ [][\A t \in Timers :
            (Invokes(t) /\ life[t] = "oneshot") =>
                (now >= scheduled_time[t] /\ ~fired[t])]_vars

\* a pass is over in which a one-shot timer fired late, another timer still queued
C4_Witness ==
    \E t \in Timers :
        /\ isr = "return" /\ life[t] = "oneshot" /\ fired[t] /\ ~linked(t)
        /\ scheduled_time[t] < now /\ timer_queue # <<>>

\* C5: a periodic timer whose callback neither cancelled nor re-armed it is
\* requeued at now + period, its period unchanged
C5_PeriodicRequeue ==
    [][\A t \in Timers :
          (Returns(t) /\ periodic /\ life[t] = "periodic" /\ fired[t]) =>
              /\ list_in_list(timer_queue', t)
              /\ scheduled_time'[t] = now + periodic_time[t]
              /\ periodic_time'[t] = periodic_time[t]]_vars

\* A one-shot with deadline 5 has fired and B, period 3, was requeued for 9 by
\* the pass at now = 6
C5_Witness ==
    /\ isr = "loop" /\ now = 6 /\ timer = "B" /\ periodic
    /\ periodic_time["B"] = 3 /\ scheduled_time["B"] = 9 /\ timer_queue = <<"B">>
    /\ life["A"] = "oneshot" /\ fired["A"] /\ scheduled_time["A"] = 5

\* C6: a periodic timer whose callback cancelled it is not reinserted when the
\* callback returns, and is not linked when the pass leaves the loop
C6_SelfCancelNotRequeued ==
    /\ [][\A t \in Timers :
            (Returns(t) /\ periodic /\ life[t] = "cancelled") =>
                ~list_in_list(timer_queue', t)]_vars
    /\ [](\A t \in Timers :
            (isr \in {"rearm", "return"} /\ life[t] = "cancelled" /\ fired[t]) => ~linked(t))

\* the callback of a periodic timer cancelled it and has returned
C6_Witness ==
    /\ isr = "loop" /\ timer \in Timers /\ periodic
    /\ life[timer] = "cancelled" /\ fired[timer] /\ ~linked(timer)

\* C7: a periodic timer re-armed by its own callback stays linked once, at the
\* deadline the callback's call gave it: the return changes neither the queue
\* nor the deadline
C7_SelfRearmKept ==
    [][\A t \in Timers :
          (Returns(t) /\ periodic /\ life[t] \in {"oneshot", "periodic"} /\ ~fired[t]) =>
              /\ timer_queue' = timer_queue
              /\ scheduled_time' = scheduled_time
              /\ Cardinality({i \in 1..Len(timer_queue') : timer_queue'[i] = t}) = 1]_vars

\* the callback of a periodic timer re-armed it for another deadline than the
\* automatic requeue would give, and has returned
C7_Witness ==
    /\ isr = "loop" /\ timer \in Timers /\ periodic
    /\ life[timer] = "periodic" /\ ~fired[timer] /\ linked(timer)
    /\ scheduled_time[timer] # now + periodic_time[timer]

\* C8: timer_cancel on an initialised timer that was never armed changes
\* nothing: queue, fields of every timer, hardware timer
C8_CancelUnarmedNoChange ==
    [][\A t \in Timers :
          (life[t] = "unarmed" /\ CancelCall(t)) =>
              /\ fatal' = "none"
              /\ timer_queue' = timer_queue
              /\ \A u \in Timers : fields(u)' = fields(u)
              /\ hw' = hw]_vars

\* C9: after timer_cancel(T) returned, T's callback is not invoked until T is
\* armed again
C9_CancelledNeverFires ==
    [][\A t \in Timers : Invokes(t) => life[t] # "cancelled"]_vars

\* a timer was armed and then cancelled before it fired, and a pass at or
\* after its deadline has left the loop
C9_Witness ==
    \E t \in Timers :
        /\ isr = "rearm" /\ life[t] = "cancelled" /\ ~fired[t]
        /\ scheduled_time[t] > 0 /\ scheduled_time[t] <= now

\* C10: on return from timer_cancel(T), T is not linked and its period,
\* callback and arg are cleared; the other timers keep their place and fields
C10_CancelPostcondition ==
    [][\A t \in Timers :
          (CancelCall(t) /\ fatal' = "none") =>
              /\ ~list_in_list(timer_queue', t)
              /\ periodic_time'[t] = 0 /\ callback'[t] = NULL /\ arg'[t] = NULL
              /\ timer_queue' = SelectSeq(timer_queue, LAMBDA x : x # t)
              /\ \A u \in Timers \ {t} : fields(u)' = fields(u)]_vars

\* a callback has made its call, and a timer that was armed ahead of the
\* timer still queued stands cancelled before it ever fired
C10_Witness ==
    \E t \in Timers :
        /\ isr = "callback" /\ cbops = 1 /\ life[t] = "cancelled" /\ ~fired[t]
        /\ scheduled_time[t] > 0 /\ timer_queue # <<>>
        /\ scheduled_time[t] < scheduled_time[timer_queue[1]]

\* C11: timers with equal scheduled_time are kept in insertion order: every
\* step that links a timer (a set call or the dispatcher's requeue) leaves the
\* other queued timers in their order and puts the new one after every queued
\* timer whose deadline is less than or equal to its own and before the first
\* one whose deadline is greater; the dispatcher always invokes the head, so
\* timers with a common deadline fire in the order they were inserted
C11_FifoTies ==
    /\ [][\A t \in Timers :
            (~linked(t) /\ list_in_list(timer_queue', t)) =>
                \E i \in 1..Len(timer_queue') :
                    /\ timer_queue'[i] = t
                    /\ list_delete(timer_queue', t) = timer_queue
                    /\ \A j \in 1..(i - 1) :
                        scheduled_time'[timer_queue'[j]] <= scheduled_time'[t]
                    /\ \A j \in (i + 1)..Len(timer_queue') :
                        scheduled_time'[timer_queue'[j]] > scheduled_time'[t]]_vars
    /\ [][\A t \in Timers : Invokes(t) => timer_queue # <<>> /\ timer_queue[1] = t]_vars

\* A and B share a deadline, A was inserted first and is the one being fired
\* while B still waits behind it
C11_Witness ==
    /\ isr = "callback" /\ timer = "A" /\ cbops = 0
    /\ timer_queue = <<"B">>
    /\ scheduled_time["A"] = scheduled_time["B"]
    /\ scheduled_time["A"] = now

\* C12: timer_set_oneshot on an unlinked valid timer leaves it linked with
\* scheduled_time = now + max(delay, 1) and periodic_time = 0; timer_set_periodic
\* leaves it linked with periodic_time = max(period, 1) and scheduled_time =
\* now + max(period, 1); the deadline is strictly later than now, also for an
\* argument of 0, and callback and arg are the ones passed
C12_SetPostcondition ==
    [][\A t \in Timers :
        (clock' = clock /\ isr' = isr /\ magic[t] = TIMER_MAGIC /\ ~linked(t)) =>
            \A d \in Delays, h \in Handlers :
                LET m == IF d >= 1 THEN d ELSE 1
                IN  /\ (SetOneshot(t, d, h) \/ CbSetOneshot(t, d, h)) =>
                        /\ scheduled_time'[t] = clock + m
                        /\ periodic_time'[t] = 0
                        /\ callback'[t] = h[1] /\ arg'[t] = h[2]
                        /\ TIME_GT(scheduled_time'[t], clock)
                        /\ list_in_list(timer_queue', t)
                        /\ fatal' = "none"
                    /\ (SetPeriodic(t, d, h) \/ CbSetPeriodic(t, d, h)) =>
                        /\ scheduled_time'[t] = clock + m
                        /\ periodic_time'[t] = m
                        /\ callback'[t] = h[1] /\ arg'[t] = h[2]
                        /\ TIME_GT(scheduled_time'[t], clock)
                        /\ list_in_list(timer_queue', t)
                        /\ fatal' = "none"]_vars

\* at time 0 a one-shot and a periodic timer were both armed with argument 0:
\* both are linked with deadline 1, the periodic one with period 1
C12_Witness ==
    /\ clock = 0 /\ isr = "idle"
    /\ linked("A") /\ life["A"] = "oneshot"
    /\ scheduled_time["A"] = 1 /\ periodic_time["A"] = 0
    /\ linked("B") /\ life["B"] = "periodic"
    /\ scheduled_time["B"] = 1 /\ periodic_time["B"] = 1

\* C13: timer_set_oneshot, timer_set_periodic and timer_cancel on a timer
\* whose validity tag is not TIMER_MAGIC end in the fatal state with the queue,
\* the timer fields and the hardware timer as they were; the dispatcher checks
\* the tag of a due timer before it unlinks it, so a timer with a bad tag stays
\* linked and its callback is not invoked
C13_TagChecked ==
    /\ [][\A t \in AllTimers :
            (magic[t] # TIMER_MAGIC /\ (SetCall(t) \/ CancelCall(t))) =>
                /\ fatal' = "assert_magic"
                /\ UNCHANGED <<timer_queue, scheduled_time, periodic_time, callback, arg, hw>>]_vars
    /\ [][(TickLoop /\ tick_due(timer_queue, scheduled_time, now)
                    /\ magic[timer_queue[1]] # TIMER_MAGIC) =>
                /\ fatal' = "assert_magic"
                /\ isr' = "loop"
                /\ UNCHANGED <<timer_queue, scheduled_time, periodic_time, callback, arg, hw>>]_vars
    /\ [][\A t \in AllTimers : Invokes(t) => magic[t] = TIMER_MAGIC]_vars

\* the dispatcher stopped on a due timer whose tag is bad, the timer still linked
C13_Witness ==
    /\ fatal = "assert_magic" /\ isr = "loop"
    /\ timer_queue # <<>> /\ timer = timer_queue[1]
    /\ magic[timer] # TIMER_MAGIC
    /\ scheduled_time[timer] <= now

\* C14: at the moment the dispatcher invokes a timer's callback that timer is
\* not linked in the queue
C14_UnlinkedWhenInvoked ==
    [][\A t \in Timers : Invokes(t) => ~list_in_list(timer_queue', t)]_vars

\* a callback has just been invoked while the other timer is still queued:
\* the invoked timer is not in the queue
C14_Witness ==
    /\ isr = "callback" /\ cbops = 0 /\ timer \in Timers
    /\ timer_queue # <<>> /\ ~linked(timer)
    /\ fired[timer]

\* C15: when a dispatch pass has left its drain loop every timer in the queue,
\* also one inserted or requeued during the pass, has a scheduled_time strictly
\* greater than the pass's now; so on a build with a dynamic timer the
\* assertion of line 251 never fails and the delay programmed at line 253 is
\* the head's deadline minus now, a positive number
C15_DrainedPastNow ==
    /\ [](/\ isr = "rearm" =>
                \A i \in 1..Len(timer_queue) : TIME_GT(scheduled_time[timer_queue[i]], now)
          /\ fatal # "assert_scheduled_time")
    /\ [][(isr = "rearm" /\ isr' = "return" /\ dynamic /\ timer_queue # <<>>) =>
            /\ hw'.mode = "oneshot"
            /\ hw'.deadline - clock = scheduled_time[timer_queue[1]] - now
            /\ hw'.deadline - clock > 0]_vars

\* C16: on a build with a dynamic timer a set call reprograms the hardware
\* timer to the new timer's delay exactly when the new timer became the head
\* (not when it ties with the head and goes behind it); timer_cancel reprograms
\* it to the new head's deadline exactly when the head became a different
\* timer, and stops it only when the cancellation emptied the queue; a call
\* that does not change which timer is earliest leaves the hardware timer as
\* it was
C16_HwFollowsHead ==
    [][\A t \in Timers :
        LET oldhead == list_peek_head(timer_queue)
            newhead == list_peek_head(timer_queue')
        IN  (dynamic /\ fatal' = "none") =>
                /\ SetCall(t) =>
                        IF newhead = t
                        THEN hw' = [mode |-> "oneshot", deadline |-> scheduled_time'[t]]
                        ELSE hw' = hw
                /\ CancelCall(t) =>
                        IF newhead = oldhead THEN hw' = hw
                        ELSE IF newhead = NULL THEN hw' = platform_stop_timer
                        ELSE hw' = [mode |-> "oneshot",
                                    deadline |-> IF scheduled_time[newhead] > clock
                                                 THEN scheduled_time[newhead] ELSE clock]]_vars

\* C17: every change of the queue, of a timer's scheduled_time, periodic_time,
\* callback or arg and every reprogramming of the hardware timer (any change of
\* it but the expiry that starts a pass) is made while the critical
\* section is held (by the interrupt context the step runs in, or taken and
\* released by the call itself: timer_cancel, the insert part of timer_set);
\* no dispatch pass begins while a set call is between its already-linked
\* check and the end of its insert; the in_critical_section assertion at the
\* end of a pass never fails
C17_CriticalSection ==
    /\ [][(\/ timer_queue' # timer_queue
           \/ hw' # hw /\ ~(isr = "idle" /\ isr' = "loop")
           \/ \E t \in AllTimers : fields(t)' # fields(t)) =>
                \/ in_critical_section
                \/ ThreadSetInsert
                \/ \E t \in AllTimers : Cancel(t)]_vars
    /\ [][(isr = "idle" /\ isr' = "loop") => thr.pc = "idle"]_vars
    /\ [](fatal # "assert_critical_section")

\* C18: a dispatch pass returns INT_RESCHEDULE exactly when some callback it
\* invoked returned INT_RESCHEDULE or, on a fixed-tick build, thread_timer_tick
\* returned it; on a fixed-tick build thread_timer_tick is called exactly once
\* per pass, after the drain loop, also when no timer was due (and never on a
\* build with a dynamic timer)
C18_RescheduleHint ==
    /\ isr = "return" =>
        /\ (ret = INT_RESCHEDULE) <=> pass.hint
        /\ pass.hooks = IF dynamic THEN 0 ELSE 1
    /\ isr \in {"loop", "callback", "rearm"} => pass.hooks = 0

\* a fixed-tick pass in which no timer was due returns the hint of
\* thread_timer_tick, called once
C18_Witness ==
    /\ ~dynamic /\ isr = "return"
    /\ pass.invoked = {} /\ pass.hooks = 1
    /\ pass.hint /\ ret = INT_RESCHEDULE

\* the clock bound of the model is reached before t or the hardware timer is due
Horizon(t) ==
    \/ scheduled_time[t] > LiveMaxTime
    \/ hw.mode # "off" /\ hw.deadline > LiveMaxTime

\* C19: on a build with a dynamic timer, whenever the queue is not empty and no
\* operation is in progress the hardware timer is armed, so its next expiry
\* runs the dispatcher and no pending timer is left without a hardware event;
\* if time advances and the platform delivers the interrupt, every queued
\* timer leaves the queue (it is fired or cancelled) unless its deadline or the
\* hardware timer's lies beyond the model's clock bound
C19_NoLostWakeup ==
    /\ []((dynamic /\ isr = "idle" /\ timer_queue # <<>>) => hw.mode # "off")
    /\ \A t \in Timers :
        (dynamic /\ linked(t)) ~> (~linked(t) \/ fatal # "none" \/ Horizon(t))

\* a dynamic-timer build is idle after a pass that fired one timer and armed
\* the hardware timer for the deadline of the one still queued
C19_Witness ==
    /\ dynamic /\ isr = "idle" /\ clock > 0
    /\ \E t \in Timers : fired[t] /\ ~linked(t)
    /\ timer_queue # <<>>
    /\ hw = [mode |-> "oneshot", deadline |-> scheduled_time[timer_queue[1]]]
    /\ ~Horizon(timer_queue[1])

\* C20: every dispatch pass terminates and invokes the callback of each timer
\* at most once: a timer that was invoked in the pass and is linked again, by
\* the requeue or by a set call of a callback, also one with delay or period 0,
\* has a deadline strictly after the pass's now, so the drain loop does not
\* take it again
C20_PassTerminates ==
    /\ [][\A t \in Timers : Invokes(t) => t \notin pass.invoked]_vars
    /\ [](isr \in {"loop", "callback", "rearm"} =>
            \A t \in pass.invoked : linked(t) => TIME_GT(scheduled_time[t], now))
    /\ (isr # "idle") ~> (isr = "idle" \/ fatal # "none")

\* in one pass both timers were invoked once; one was requeued with period 1
\* and the other armed again by a callback, and the loop has been left
C20_Witness ==
    /\ isr = "rearm" /\ pass.invoked = Timers
    /\ Len(timer_queue) = 2
    /\ \E t \in Timers : life[t] = "periodic" /\ periodic_time[t] = 1
    /\ \E t \in Timers : life[t] = "oneshot" /\ scheduled_time[t] = now + 1

====
